---- MODULE Spec2Model ----
(***************************************************************************)
(* sysext-cli: image metadata resolution (images-list.c) and the update    *)
(* selector (newversion.c).                                                *)
(*                                                                         *)
(* C strings are sequences of one-character strings; a pointer to a deps   *)
(* record is an index into `heap` (0 is the null pointer); a pointer to an *)
(* image entry is a sequence of length 0 (null) or 1.                      *)
(***************************************************************************)
EXTENDS Integers, Sequences, FiniteSets, TLC

\* ------------------------------------------------------------- bounds
\* longest SHA256SUMS listing (remote) / directory listing (local)
MaxRemote == 1
MaxLocal == 2
\* most records one per-image JSON document holds
MaxRecords == 2
\* longest base part, and longest version or architecture part, of a generated file name
MaxBase == 1
MaxPart == 2

\* ------------------------------------------------------------- errno
ENOENT == 2
ENOMEM == 12
EINVAL == 22

\* ------------------------------------------------------------- strings
\* the byte value of a character, as strcmp compares them
Code(c) ==
  CASE c = "-" -> 45 [] c = "." -> 46
    [] c = "0" -> 48 [] c = "1" -> 49 [] c = "2" -> 50 [] c = "9" -> 57
    [] c = "a" -> 97 [] c = "b" -> 98 [] c = "g" -> 103 [] c = "i" -> 105
    [] c = "m" -> 109 [] c = "r" -> 114 [] c = "w" -> 119
    [] c = "x" -> 120 [] c = "y" -> 121

RECURSIVE strcmp(_, _)
strcmp(s1, s2) ==
  IF s1 = <<>> /\ s2 = <<>> THEN 0
  ELSE IF s1 = <<>> THEN 0 - Code(Head(s2))
  ELSE IF s2 = <<>> THEN Code(Head(s1))
  ELSE IF Head(s1) # Head(s2) THEN Code(Head(s1)) - Code(Head(s2))
  ELSE strcmp(Tail(s1), Tail(s2))

streq(s1, s2) == strcmp(s1, s2) = 0

\* position of the last occurrence of c in s, 0 when there is none
strrchr(s, c) ==
  LET hits == {k \in 1..Len(s) : s[k] = c}
  IN IF hits = {} THEN 0 ELSE CHOOSE k \in hits : \A j \in hits : j <= k

\* p = strrchr(name, c); if (p) *p = '\0';
cut_at_last(s, c) ==
  LET p == strrchr(s, c) IN IF p # 0 THEN SubSeq(s, 1, p - 1) ELSE s

strip_image_name_once(fn) == cut_at_last(cut_at_last(fn, "."), "-")

\* create "debug-tools" from "debug-tools-23.7.x86-64.raw"
strip_image_name(fn) == cut_at_last(cut_at_last(cut_at_last(fn, "."), "."), "-")

\* ------------------------------------------------------------- versions
version_cmp_numeric(s1, s2) ==
  IF Len(s1) # Len(s2) THEN Len(s1) - Len(s2) ELSE strcmp(s1, s2)

version_cmp(s1, s2) == strcmp(s1, s2)

\* ------------------------------------------------------------- pointers
NULL == <<>>
Ptr(e) == <<e>>
Deref(p) == p[1]

\* ------------------------------------------------------------- inputs
SuffixRaw == <<".", "r", "a", "w">>
SuffixImg == <<".", "i", "m", "g">>

\* <base>-<version>.<arch><suffix>
MkFileName(base, version, arch, suffix) ==
  base \o <<"-">> \o version \o <<".">> \o arch \o suffix

V1 == <<"1">>
V2 == <<"2">>
V9 == <<"9">>
V10 == <<"1", "0">>
ArchX == <<"x">>
ArchY == <<"y">>
NameA == <<"a">>
NameB == <<"b">>

Versions == {V2, V9, V10}

\* what a release file or a JSON record can say about an image
DepsChoices ==
  {[architecture |-> ArchX, sysext_version_id |-> v] : v \in Versions}
  \cup {[architecture |-> ArchY, sysext_version_id |-> V9]}

\* the file names a store directory or a SHA256SUMS listing holds
FileNames ==
  {MkFileName(NameA, V10, ArchX, SuffixRaw), MkFileName(NameB, V2, ArchX, SuffixImg)}

\* the installed entry handed to get_latest_version
InstalledEntries ==
  {[name |-> NameA, deps |-> d] :
     d \in DepsChoices \cup {[architecture |-> ArchX, sysext_version_id |-> V1]}}

\* failures a collaborator reports, as errno values
Errnos == {ENOENT, EINVAL}

RECURSIVE SeqsUpTo(_, _)
SeqsUpTo(S, n) ==
  IF n = 0 THEN {<<>>}
  ELSE LET shorter == SeqsUpTo(S, n - 1)
       IN shorter \cup {Append(s, x) : s \in {t \in shorter : Len(t) = n - 1}, x \in S}


\* ------------------------------------------------------------- collaborators
\* download("SHA256SUMS"), fdopen and the image lines of the listing
ListOutcomes ==
  {[download |-> 0 - e, fdopen |-> 0, names |-> <<>>, oom |-> FALSE] : e \in Errnos}
  \cup {[download |-> 0, fdopen |-> 0 - e, names |-> <<>>, oom |-> FALSE] : e \in Errnos}
  \cup {[download |-> 0, fdopen |-> 0, names |-> s, oom |-> b] :
          s \in SeqsUpTo(FileNames, MaxRemote), b \in BOOLEAN}

\* download("<image>.json") and load_image_json on the downloaded file
JsonOutcomes ==
  {[download |-> 0 - e, load |-> 0, images |-> <<>>, oom |-> FALSE] : e \in Errnos}
  \cup {[download |-> 0, load |-> 0 - e, images |-> <<>>, oom |-> FALSE] : e \in Errnos}
  \cup {[download |-> 0, load |-> 0, images |-> s, oom |-> FALSE] :
          s \in SeqsUpTo(DepsChoices, 1)}
  \cup {[download |-> 0, load |-> 0, images |-> [k \in 1..n |-> d], oom |-> FALSE] :
          n \in 2..MaxRecords, d \in DepsChoices}
  \cup {[download |-> 0, load |-> 0, images |-> <<>>, oom |-> TRUE]}

\* scandir, readlink on the links found, and the names that result
DiscoverOutcomes ==
  {[scandir |-> 0 - e, readlink |-> 0, truncated |-> FALSE, names |-> <<>>, oom |-> FALSE] :
     e \in Errnos}
  \cup {[scandir |-> 1, readlink |-> 0 - e, truncated |-> FALSE, names |-> <<>>, oom |-> FALSE] :
          e \in Errnos}
  \cup {[scandir |-> 1, readlink |-> 0, truncated |-> TRUE, names |-> <<>>, oom |-> FALSE]}
  \cup {[scandir |-> Len(s), readlink |-> 0, truncated |-> FALSE, names |-> s, oom |-> b] :
          s \in SeqsUpTo(FileNames, MaxLocal), b \in BOOLEAN}

\* extract (systemd-dissect) and load_ext_release on the extracted file
ReadOutcomes ==
  {[extract |-> 0 - e, load |-> 0, image |-> NULL, oom |-> FALSE] : e \in Errnos}
  \cup {[extract |-> 1, load |-> 0, image |-> NULL, oom |-> FALSE]}
  \cup {[extract |-> 0, load |-> 0 - e, image |-> NULL, oom |-> FALSE] : e \in Errnos}
  \cup {[extract |-> 0, load |-> 0, image |-> Ptr(d), oom |-> FALSE] : d \in DepsChoices}
  \cup {[extract |-> 0, load |-> 0, image |-> NULL, oom |-> TRUE]}

\* ------------------------------------------------------------- temporary files
TmpExtRelease == "/tmp/sysext-image-extrelease"
TmpJson == "/tmp/sysext-image-json"
TmpSums == "/tmp/sysext-SHA256SUMS"

mkostemp_safe(files, tmpfn) == files \cup {tmpfn}

unlink_tempfilep_leaky(files, tmpfn) == files

\* the _cleanup_(unlink_tempfilep) handler: runs when the function returns
unlink_tempfilep(files, tmpfn) == files \ {tmpfn}

\* ------------------------------------------------------------- memory
\* a deps record on the heap, with the number of times it was freed
Cell(d) ==
  [architecture |-> d.architecture, sysext_version_id |-> d.sysext_version_id, frees |-> 0]

free_image_deps(hp, d) == IF d = 0 THEN hp ELSE [hp EXCEPT ![d].frees = @ + 1]

free_image_entry(hp, e) == free_image_deps(hp, e.deps)

free_image_entryp(hp, p) == IF p = NULL THEN hp ELSE free_image_entry(hp, Deref(p))

RECURSIVE free_image_entry_list(_, _)
free_image_entry_list(hp, l) ==
  IF l = <<>> THEN hp ELSE free_image_entry_list(free_image_entry(hp, Head(l)), Tail(l))

\* calloc(1, sizeof(struct image_entry)), name and the local/remote flag set
NewEntry(name, is_local, is_remote) ==
  [name |-> name, deps |-> 0, local |-> is_local, remote |-> is_remote,
   installed |-> FALSE, compatible |-> FALSE]

\* ------------------------------------------------------------- images-list.c
discover_images(o) ==
  IF o.scandir < 0 THEN [r |-> o.scandir, result |-> <<>>, exited |-> FALSE]
  ELSE IF o.readlink < 0 THEN [r |-> o.readlink, result |-> <<>>, exited |-> FALSE]
  ELSE IF o.truncated THEN [r |-> 0, result |-> <<>>, exited |-> TRUE]
  ELSE [r |-> 0, result |-> o.names, exited |-> FALSE]

image_read_metadata(files, o) ==
  LET made == mkostemp_safe(files, TmpExtRelease)
      r == IF o.extract < 0 THEN o.extract
           ELSE IF o.extract > 0 THEN 0 - EINVAL
           ELSE IF o.load < 0 THEN o.load
           ELSE 0
  IN [r |-> r,
      res |-> IF r = 0 THEN o.image ELSE NULL,
      exited |-> FALSE,
      files |-> unlink_tempfilep(made, TmpExtRelease)]

image_json_from_url(files, o) ==
  LET made == mkostemp_safe(files, TmpJson)
      back(r, res) ==
        [r |-> r, res |-> res, exited |-> FALSE, files |-> unlink_tempfilep(made, TmpJson)]
  IN IF o.download < 0 THEN back(o.download, NULL)
     ELSE IF o.load < 0 THEN back(o.load, NULL)
     ELSE IF Len(o.images) = 0 THEN back(0 - ENOENT, NULL)
     ELSE IF Len(o.images) = 1 THEN back(0, Ptr(o.images[1]))
     ELSE [r |-> 0, res |-> NULL, exited |-> TRUE, files |-> made]

image_list_from_url(files, o) ==
  LET made == mkostemp_safe(files, TmpSums)
      back(r, result) ==
        [r |-> r, result |-> result, files |-> unlink_tempfilep(made, TmpSums)]
  IN IF o.download < 0 THEN back(o.download, <<>>)
     ELSE IF o.fdopen < 0 THEN back(o.fdopen, <<>>)
     ELSE back(0, o.names)

\* ------------------------------------------------------------- newversion.c
newer_than_installed_or_equal(old, nd) ==
  /\ streq(old.deps.architecture, nd.architecture)
  /\ version_cmp(old.deps.sysext_version_id, nd.sysext_version_id) <= 0

\* the candidate is for the installed architecture and newer than the installed one
newer_than_installed(old, nd) ==
  /\ streq(old.deps.architecture, nd.architecture)
  /\ version_cmp(old.deps.sysext_version_id, nd.sysext_version_id) < 0

keeps_update_unless_equal(ud, nd) ==
  version_cmp(ud.sysext_version_id, nd.sysext_version_id) > 0

\* "don't update with older version": the best so far stays
keeps_update(ud, nd) ==
  version_cmp(ud.sysext_version_id, nd.sysext_version_id) >= 0

copy_deps(e) == [taken |-> e.deps, left |-> e]

\* TAKE_PTR(new->deps): the pointer moves out and the source is set to null
take_deps(e) == [taken |-> e.deps, left |-> [e EXCEPT !.deps = 0]]

check_if_newer(old, cand, upd, hp) ==
  LET same == [update |-> upd, cand |-> cand, heap |-> hp]
      t == take_deps(cand)
      replaced ==
        [update |-> Ptr([name |-> cand.name, deps |-> t.taken, local |-> cand.local,
                         remote |-> FALSE, installed |-> cand.installed,
                         compatible |-> cand.compatible]),
         cand |-> t.left,
         heap |-> free_image_entryp(hp, upd)]
  IN IF newer_than_installed(old, hp[cand.deps])
     THEN IF upd # NULL
          THEN IF keeps_update(hp[Deref(upd).deps], hp[cand.deps])
               THEN same
               ELSE replaced
          ELSE replaced
     ELSE same

\* ------------------------------------------------------------- state
VARIABLES
  pc,             \* where the call of get_latest_version stands
  curr,           \* the installed entry (argument)
  url,            \* whether a remote URL was given (argument)
  new,            \* *new, the entry handed back to the caller
  ret,            \* the value get_latest_version returned
  r,              \* get_latest_version: r
  update,         \* get_latest_version: update
  images_remote,  \* get_latest_version: images_remote
  n_remote,       \* get_latest_version: n_remote
  images_local,   \* get_latest_version: images_local
  n_local,        \* get_latest_version: n_local
  i,              \* the index of the loop that is running
  list,           \* image_*_metadata: list
  images,         \* image_*_metadata: images, as far as it is built
  heap,           \* every deps record allocated so far
  tmpfiles,       \* the temporary files that exist
  scanned,        \* the candidates check_if_newer was called on, as passed, in order
  failed,         \* whether a step of a metadata resolution has failed
  json_call,      \* the image_json_from_url call just made: its document and result
  named           \* the file name just turned into an entry name, with that name

vars ==
  <<pc, curr, url, new, ret, r, update, images_remote, n_remote, images_local, n_local,
    i, list, images, heap, tmpfiles, scanned, failed, json_call, named>>

Start(installed) ==
  /\ pc = "start"
  /\ curr \in installed
  /\ url \in BOOLEAN
  /\ new = NULL
  /\ ret = 0
  /\ r = 0
  /\ update = NULL
  /\ images_remote = <<>>
  /\ n_remote = 0
  /\ images_local = <<>>
  /\ n_local = 0
  /\ i = 0
  /\ list = <<>>
  /\ images = <<>>
  /\ heap = <<>>
  /\ tmpfiles = {}
  /\ scanned = <<>>
  /\ failed = FALSE
  /\ json_call = NULL
  /\ named = NULL

Init == Start(InstalledEntries)

\* ------------------------------------------------------------- get_latest_version
\* return rv: the _cleanup_ handlers free update and both lists
GlvReturn(rv, upd, hp, rem, loc) ==
  /\ pc' = "done"
  /\ ret' = rv
  /\ heap' = free_image_entry_list(free_image_entry_list(free_image_entryp(hp, upd), rem), loc)
  /\ update' = NULL
  /\ images_remote' = <<>>
  /\ images_local' = <<>>
  /\ n_remote' = 0
  /\ n_local' = 0
  /\ r' = 0
  /\ i' = 0

\* r = image_remote_metadata(...); if (r < 0) return r; then the first loop
GlvAfterRemote(rv, imgs, cnt, hp) ==
  IF rv < 0
  THEN GlvReturn(rv, update, hp, <<>>, <<>>)
  ELSE /\ r' = rv
       /\ images_remote' = imgs
       /\ n_remote' = cnt
       /\ heap' = hp
       /\ pc' = IF cnt > 0 THEN "remote_scan" ELSE "local_discover"
       /\ i' = IF cnt > 0 THEN 1 ELSE 0
       /\ UNCHANGED <<ret, update, images_local, n_local>>

\* r = image_local_metadata(...); if (r < 0) return r; then the second loop
GlvAfterLocal(rv, imgs, cnt, hp) ==
  IF rv < 0
  THEN GlvReturn(rv, update, hp, images_remote, <<>>)
  ELSE /\ r' = rv
       /\ images_local' = imgs
       /\ n_local' = cnt
       /\ heap' = hp
       /\ pc' = IF cnt > 0 THEN "local_scan" ELSE "return"
       /\ i' = IF cnt > 0 THEN 1 ELSE 0
       /\ UNCHANGED <<ret, update, images_remote, n_remote>>

\* exit(EXIT_FAILURE): no handler runs; the process and its memory are gone, the
\* files it made stay
Exit(files) ==
  /\ pc' = "exited"
  /\ tmpfiles' = files
  /\ update' = NULL
  /\ images_remote' = <<>>
  /\ images_local' = <<>>
  /\ n_remote' = 0
  /\ n_local' = 0
  /\ r' = 0
  /\ i' = 0
  /\ list' = <<>>
  /\ images' = <<>>
  /\ heap' = <<>>
  /\ UNCHANGED ret

GlvStart ==
  /\ pc = "start"
  /\ pc' = IF url THEN "remote_list" ELSE "local_discover"
  /\ UNCHANGED <<curr, url, new, ret, r, update, images_remote, n_remote, images_local,
                 n_local, i, list, images, heap, tmpfiles, scanned, failed, json_call, named>>

\* image_remote_metadata up to its loop
RemoteList ==
  /\ pc = "remote_list"
  /\ \E o \in ListOutcomes :
       LET l == image_list_from_url(tmpfiles, o)
           n == Len(l.result)
       IN /\ tmpfiles' = l.files
          /\ IF l.r < 0
             THEN /\ GlvAfterRemote(0 - l.r, <<>>, 0, heap)
                  /\ failed' = TRUE
                  /\ UNCHANGED <<list, images>>
             ELSE IF n = 0
             THEN /\ GlvAfterRemote(0, <<>>, 0, heap)
                  /\ UNCHANGED <<failed, list, images>>
             ELSE IF o.oom
             THEN /\ GlvAfterRemote(0 - ENOMEM, <<>>, 0, heap)
                  /\ failed' = TRUE
                  /\ UNCHANGED <<list, images>>
             ELSE /\ pc' = "remote_image"
                  /\ list' = l.result
                  /\ images' = <<>>
                  /\ i' = 1
                  /\ UNCHANGED <<failed, ret, r, update, images_remote, n_remote,
                                 images_local, n_local, heap>>
  /\ json_call' = NULL
  /\ named' = NULL
  /\ UNCHANGED <<curr, url, new, scanned>>

\* one round of image_remote_metadata's loop
RemoteImage ==
  /\ pc = "remote_image"
  /\ \E o \in JsonOutcomes :
       LET entry == NewEntry(strip_image_name(list[i]), FALSE, TRUE)
           j == image_json_from_url(tmpfiles, o)
           built == Append(images, [entry EXCEPT !.deps = Len(heap) + 1])
       IN IF o.oom
          THEN /\ GlvAfterRemote(0 - ENOMEM, <<>>, 0, free_image_entry_list(heap, images))
               /\ failed' = TRUE
               /\ list' = <<>>
               /\ images' = <<>>
               /\ json_call' = NULL
               /\ named' = NULL
               /\ UNCHANGED tmpfiles
          ELSE /\ json_call' =
                    Ptr([parsed |-> o.download = 0 /\ o.load = 0, images |-> o.images,
                         r |-> j.r, res |-> j.res, exited |-> j.exited])
               /\ named' = IF j.exited \/ j.r < 0
                           THEN NULL
                           ELSE Ptr([file |-> list[i], name |-> entry.name])
               /\ IF j.exited
                  THEN /\ Exit(j.files)
                       /\ UNCHANGED failed
                  ELSE /\ tmpfiles' = j.files
                       /\ IF j.r < 0
                          THEN /\ GlvAfterRemote(0 - j.r, <<>>, 0,
                                                 free_image_entry_list(heap, images))
                               /\ failed' = TRUE
                               /\ list' = <<>>
                               /\ images' = <<>>
                          ELSE IF i = Len(list)
                          THEN /\ GlvAfterRemote(0, built, Len(list),
                                                 Append(heap, Cell(Deref(j.res))))
                               /\ list' = <<>>
                               /\ images' = <<>>
                               /\ UNCHANGED failed
                          ELSE /\ heap' = Append(heap, Cell(Deref(j.res)))
                               /\ images' = built
                               /\ i' = i + 1
                               /\ UNCHANGED <<pc, failed, list, ret, r, update,
                                              images_remote, n_remote, images_local,
                                              n_local>>
  /\ UNCHANGED <<curr, url, new, scanned>>

\* one round of the loop over images_remote
RemoteScan ==
  /\ pc = "remote_scan"
  /\ LET c == check_if_newer(curr, images_remote[i], update, heap)
     IN /\ update' = c.update
        /\ images_remote' = [images_remote EXCEPT ![i] = c.cand]
        /\ heap' = c.heap
  /\ scanned' = Append(scanned, images_remote[i])
  /\ IF i < n_remote
     THEN i' = i + 1 /\ pc' = pc
     ELSE i' = 0 /\ pc' = "local_discover"
  /\ json_call' = NULL
  /\ named' = NULL
  /\ UNCHANGED <<curr, url, new, ret, r, n_remote, images_local, n_local, list, images,
                 tmpfiles, failed>>

\* image_local_metadata up to its loop
LocalDiscover ==
  /\ pc = "local_discover"
  /\ \E o \in DiscoverOutcomes :
       LET d == discover_images(o)
           n == Len(d.result)
       IN IF d.exited
          THEN /\ Exit(tmpfiles)
               /\ UNCHANGED failed
          ELSE /\ UNCHANGED tmpfiles
               /\ IF d.r < 0
                  THEN /\ GlvAfterLocal(0 - d.r, <<>>, 0, heap)
                       /\ failed' = TRUE
                       /\ UNCHANGED <<list, images>>
                  ELSE IF n = 0
                  THEN /\ GlvAfterLocal(0, <<>>, 0, heap)
                       /\ UNCHANGED <<failed, list, images>>
                  ELSE IF o.oom
                  THEN /\ GlvAfterLocal(0 - ENOMEM, <<>>, 0, heap)
                       /\ failed' = TRUE
                       /\ UNCHANGED <<list, images>>
                  ELSE /\ pc' = "local_image"
                       /\ list' = d.result
                       /\ images' = <<>>
                       /\ i' = 1
                       /\ UNCHANGED <<failed, ret, r, update, images_remote, n_remote,
                                      images_local, n_local, heap>>
  /\ json_call' = NULL
  /\ named' = NULL
  /\ UNCHANGED <<curr, url, new, scanned>>

\* one round of image_local_metadata's loop
LocalImage ==
  /\ pc = "local_image"
  /\ \E o \in ReadOutcomes :
       LET entry == NewEntry(strip_image_name(list[i]), TRUE, FALSE)
           m == image_read_metadata(tmpfiles, o)
           built == Append(images, [entry EXCEPT !.deps = Len(heap) + 1])
       IN IF o.oom
          THEN /\ GlvAfterLocal(0 - ENOMEM, <<>>, 0, free_image_entry_list(heap, images))
               /\ failed' = TRUE
               /\ list' = <<>>
               /\ images' = <<>>
               /\ named' = NULL
               /\ UNCHANGED tmpfiles
          ELSE /\ tmpfiles' = m.files
               /\ named' = IF m.r < 0
                           THEN NULL
                           ELSE Ptr([file |-> list[i], name |-> entry.name])
               /\ IF m.r < 0
                  THEN /\ GlvAfterLocal(m.r, <<>>, 0, free_image_entry_list(heap, images))
                       /\ failed' = TRUE
                       /\ list' = <<>>
                       /\ images' = <<>>
                  ELSE IF i = Len(list)
                  THEN /\ GlvAfterLocal(0, built, Len(list), Append(heap, Cell(Deref(m.res))))
                       /\ list' = <<>>
                       /\ images' = <<>>
                       /\ UNCHANGED failed
                  ELSE /\ heap' = Append(heap, Cell(Deref(m.res)))
                       /\ images' = built
                       /\ i' = i + 1
                       /\ UNCHANGED <<pc, failed, list, ret, r, update, images_remote,
                                      n_remote, images_local, n_local>>
  /\ json_call' = NULL
  /\ UNCHANGED <<curr, url, new, scanned>>

\* one round of the loop over images_local
LocalScan ==
  /\ pc = "local_scan"
  /\ LET c == check_if_newer(curr, images_local[i], update, heap)
     IN /\ update' = c.update
        /\ images_local' = [images_local EXCEPT ![i] = c.cand]
        /\ heap' = c.heap
  /\ scanned' = Append(scanned, images_local[i])
  /\ IF i < n_local
     THEN i' = i + 1 /\ pc' = pc
     ELSE i' = 0 /\ pc' = "return"
  /\ json_call' = NULL
  /\ named' = NULL
  /\ UNCHANGED <<curr, url, new, ret, r, n_local, images_remote, n_remote, list, images,
                 tmpfiles, failed>>

\* if (update) *new = TAKE_PTR(update); return 0;
GlvFinish ==
  /\ pc = "return"
  /\ new' = IF update # NULL THEN update ELSE new
  /\ GlvReturn(0, NULL, heap, images_remote, images_local)
  /\ json_call' = NULL
  /\ named' = NULL
  /\ UNCHANGED <<curr, url, list, images, tmpfiles, scanned, failed>>

Next ==
  \/ GlvStart
  \/ RemoteList
  \/ RemoteImage
  \/ RemoteScan
  \/ LocalDiscover
  \/ LocalImage
  \/ LocalScan
  \/ GlvFinish

Spec == Init /\ [][Next]_vars

\* ------------------------------------------------------------- one image, any name
PartChars == {"a", "-", "."}

\* the non-empty base, version and architecture parts a file name is built from
Bases == SeqsUpTo(PartChars, MaxBase) \ {<<>>}
Parts == SeqsUpTo(PartChars, MaxPart) \ {<<>>}

Suffixes == {SuffixRaw, SuffixImg}

GeneratedFileNames ==
  {MkFileName(b, v, a, x) : b \in Bases, v \in Parts, a \in Parts, x \in Suffixes}

\* image files that do not follow <base>-<version>.<arch>.<suffix>
EdgeFileNames == {SuffixRaw, <<"a">> \o SuffixRaw, <<"-", "1">> \o SuffixImg}

\* image_local_metadata (no URL) or image_remote_metadata (with one) has listed one
\* file and enters its loop
ResolveInit ==
  /\ url \in BOOLEAN
  /\ pc = IF url THEN "remote_image" ELSE "local_image"
  /\ curr = [name |-> NameA, deps |-> [architecture |-> ArchX, sysext_version_id |-> V9]]
  /\ list \in {<<f>> : f \in GeneratedFileNames \cup EdgeFileNames}
  /\ i = 1
  /\ new = NULL
  /\ ret = 0
  /\ r = 0
  /\ update = NULL
  /\ images_remote = <<>>
  /\ n_remote = 0
  /\ images_local = <<>>
  /\ n_local = 0
  /\ images = <<>>
  /\ heap = <<>>
  /\ tmpfiles = {}
  /\ scanned = <<>>
  /\ failed = FALSE
  /\ json_call = NULL
  /\ named = NULL

ResolveNext == RemoteImage \/ LocalImage

SpecResolve == ResolveInit /\ [][ResolveNext]_vars


\* ------------------------------------------------------------- properties
\* the deps record an entry pointer leads to
DepsOf(p) == heap[Deref(p).deps]

\* the deps record of the k-th candidate check_if_newer was called on
ScannedDeps(k) == heap[scanned[k].deps]

SameArch(d) == d.architecture = curr.deps.architecture

NewerThanCurr(d) == version_cmp(curr.deps.sysext_version_id, d.sysext_version_id) < 0

\* the scanned candidates that are for the installed architecture and strictly newer
EligibleScanned == {k \in 1..Len(scanned) : SameArch(ScannedDeps(k)) /\ NewerThanCurr(ScannedDeps(k))}

\* C1: whatever entry get_latest_version holds as its update or has handed back is
\* an eligible candidate: its architecture is string-equal to the installed entry's
\* and its sysext_version_id compares strictly greater than the installed one under
\* version_cmp; a candidate of another architecture, or of the installed version, is
\* never the one returned.
C1_ReturnedIsEligible ==
  \A p \in {update, new} :
    p # NULL => SameArch(DepsOf(p)) /\ NewerThanCurr(DepsOf(p))

\* C1 witness: the call has returned an update although it also scanned a newer
\* candidate of another architecture and a same-architecture candidate of the
\* installed version.
C1_Witness ==
  /\ pc = "done"
  /\ new # NULL
  /\ \E k \in 1..Len(scanned) : ~SameArch(ScannedDeps(k)) /\ NewerThanCurr(ScannedDeps(k))
  /\ \E k \in 1..Len(scanned) :
       /\ SameArch(ScannedDeps(k))
       /\ ScannedDeps(k).sysext_version_id = curr.deps.sysext_version_id

\* the first candidate in scan order among the eligible ones of greatest version
FirstBest ==
  CHOOSE k \in EligibleScanned :
    \A j \in EligibleScanned :
      LET c == version_cmp(ScannedDeps(j).sysext_version_id, ScannedDeps(k).sysext_version_id)
      IN c <= 0 /\ (j < k => c < 0)

\* C2: when both resolutions succeeded and get_latest_version has returned, it
\* returned 0; it handed back no entry exactly when no scanned candidate is eligible;
\* otherwise it handed back the eligible candidate of greatest version, and among
\* several of that version the first in scan order (remote list, then local list).
C2_ReturnsFirstBest ==
  (pc = "done" /\ ~failed) =>
    /\ ret = 0
    /\ (new = NULL) <=> (EligibleScanned = {})
    /\ new # NULL =>
         /\ Deref(new).deps = scanned[FirstBest].deps
         /\ Deref(new).name = scanned[FirstBest].name
         /\ Deref(new).local = scanned[FirstBest].local

\* C2 witness: a remote and a local candidate are eligible with the same, greatest
\* version, and the remote one was handed back.
C2_Witness ==
  /\ pc = "done"
  /\ ~failed
  /\ new # NULL
  /\ \E j \in EligibleScanned, k \in EligibleScanned :
       /\ j < k
       /\ scanned[j].remote
       /\ scanned[k].local
       /\ ScannedDeps(j).sysext_version_id = ScannedDeps(k).sysext_version_id
       /\ Deref(new).deps = scanned[j].deps
       /\ Deref(new).deps = scanned[FirstBest].deps

\* installed "9", and exactly two candidates, "10" and "2", of the installed
\* architecture, both resolutions succeeding
NineTenTwo ==
  /\ pc = "done"
  /\ ~failed
  /\ curr.deps.sysext_version_id = V9
  /\ Len(scanned) = 2
  /\ \A k \in 1..2 : SameArch(ScannedDeps(k))
  /\ {ScannedDeps(1).sysext_version_id, ScannedDeps(2).sysext_version_id} = {V10, V2}

\* C3 as stated: with installed version "9" and same-architecture candidates "10"
\* and "2", get_latest_version (version_cmp = strcmp) selects the candidate "2".
C3_SelectsTwo ==
  NineTenTwo => new # NULL /\ DepsOf(new).sysext_version_id = V2

\* C3 as amended: with installed version "9" and same-architecture candidates "10"
\* and "2", get_latest_version (version_cmp = strcmp) selects neither and returns
\* "no update": under strcmp both "10" and "2" compare less than "9".
C3_SelectsNone ==
  NineTenTwo => new = NULL /\ ret = 0

\* C3 witness: the case has run to its end without an update.
C3_Witness ==
  NineTenTwo /\ new = NULL

\* image_remote_metadata / image_local_metadata has just returned a list to its caller
RemoteListReturned == pc = "remote_scan" /\ i = 1
LocalListReturned == pc = "local_scan" /\ i = 1

\* C4: every entry of a list image_local_metadata or image_remote_metadata returns
\* has a non-empty name and a non-null deps.
C4_EntriesComplete ==
  /\ RemoteListReturned =>
       \A k \in 1..Len(images_remote) :
         images_remote[k].name # <<>> /\ images_remote[k].deps # 0
  /\ LocalListReturned =>
       \A k \in 1..Len(images_local) :
         images_local[k].name # <<>> /\ images_local[k].deps # 0

\* C5: once a step of a metadata resolution has failed, get_latest_version returns
\* an error and hands back no entry.
C5_FailureReported ==
  (pc = "done" /\ failed) => ret < 0 /\ new = NULL

\* C6: image_json_from_url, having parsed the downloaded document, returns the
\* record when there is exactly one, -ENOENT when there is none, and an error (not
\* an exit of the process) when there are two or more.
C6_RecordCountOutcome ==
  (json_call # NULL /\ Deref(json_call).parsed) =>
    LET c == Deref(json_call)
        n == Len(c.images)
    IN /\ n = 1 => ~c.exited /\ c.r = 0 /\ c.res = Ptr(c.images[1])
       /\ n = 0 => ~c.exited /\ c.r = 0 - ENOENT
       /\ n >= 2 => ~c.exited /\ c.r < 0

\* every way to read fn as <base>-<version>.<arch>.raw (or .img), all parts non-empty
Readings(fn) ==
  {[base |-> SubSeq(fn, 1, d - 1),
    version |-> SubSeq(fn, d + 1, q - 1),
    arch |-> SubSeq(fn, q + 1, Len(fn) - 4)] :
     <<d, q>> \in {x \in (2..Len(fn)) \X (4..Len(fn) - 5) :
                     /\ x[1] + 1 < x[2]
                     /\ fn[x[1]] = "-"
                     /\ fn[x[2]] = "."
                     /\ SubSeq(fn, Len(fn) - 3, Len(fn)) \in {SuffixRaw, SuffixImg}}}

HasDash(s) == \E k \in 1..Len(s) : s[k] = "-"

\* the part of an architecture in front of its last '.', empty when it has none
ArchFront(a) == SubSeq(a, 1, strrchr(a, ".") - 1)

\* C7 as stated: for every file name built as base-version.arch.raw (or .img) from
\* non-empty parts, the entry name the resolver derives equals base.
C7_NameIsBase ==
  named # NULL =>
    \A x \in Readings(Deref(named).file) : Deref(named).name = x.base

\* C7 as amended: for every file name built as base-version.arch.raw (or .img) from
\* non-empty parts whose version holds no '-' and whose architecture holds no '-' in
\* front of a '.', the entry name the resolver derives equals base. (A '-' in the
\* version, as in b-1-2.x.raw, leaves "b-1".)
C7_NameIsBaseWithoutLaterDash ==
  named # NULL =>
    \A x \in Readings(Deref(named).file) :
      (~HasDash(x.version) /\ ~HasDash(ArchFront(x.arch))) => Deref(named).name = x.base

\* C7 witness: an entry was named after a file whose base holds a '-', whose version
\* holds a '.' and whose architecture holds a '-', and the name is that base.
C7_Witness ==
  /\ named # NULL
  /\ \E x \in Readings(Deref(named).file) :
       /\ HasDash(x.base)
       /\ \E k \in 1..Len(x.version) : x.version[k] = "."
       /\ ~HasDash(x.version)
       /\ HasDash(x.arch)
       /\ ~HasDash(ArchFront(x.arch))
       /\ Deref(named).name = x.base

\* the places that hold deps pointer d
Holders(d) ==
  {<<"images_remote", k>> : k \in {j \in 1..Len(images_remote) : images_remote[j].deps = d}}
  \cup {<<"images_local", k>> : k \in {j \in 1..Len(images_local) : images_local[j].deps = d}}
  \cup {<<"images", k>> : k \in {j \in 1..Len(images) : images[j].deps = d}}
  \cup {<<"update", 1>> : k \in {j \in 1..Len(update) : update[j].deps = d}}
  \cup {<<"new", 1>> : k \in {j \in 1..Len(new) : new[j].deps = d}}

C9_NoTempFileLeft ==
  tmpfiles = {}

\* C10: an entry get_latest_version hands back has the installed entry's name.
C10_SameName ==
  (pc = "done" /\ new # NULL) => Deref(new).name = curr.name

====
